---- MODULE Spec2Model ----
(***************************************************************************)
(* State-machine model of proplot/rcmod.py: the settings registry          *)
(* rc_configurator (global properties fanned out to concrete keys of       *)
(* matplotlib's rcParams and of the registry's own special store) and the  *)
(* save/apply/restore context rc_context.                                  *)
(*                                                                         *)
(* rcParams is the external store.  It is modelled on the keys the         *)
(* registry touches (every child key, every derived key) plus a few free   *)
(* keys; it iterates in sorted key order and never gains a key.            *)
(***************************************************************************)
EXTENDS Integers, Sequences, FiniteSets, TLC

VARIABLES rcParams, _rcSpecial, _rcGlobals, _init, ctxs, stack, last, nops

vars == <<rcParams, _rcSpecial, _rcGlobals, _init, ctxs, stack, last, nops>>

----------------------------------------------------------------------------
(* Values.  Python values are tagged records of one shape: numbers are     *)
(* exact fractions n/d in lowest terms, dicts are ordered item lists.      *)

Num(n, d) == [t |-> "num", n |-> n, d |-> d, s |-> "", items |-> <<>>]
Str(s) == [t |-> "str", n |-> 0, d |-> 1, s |-> s, items |-> <<>>]
Bool(b) == [t |-> "bool", n |-> IF b THEN 1 ELSE 0, d |-> 1, s |-> "", items |-> <<>>]
Dict(items) == [t |-> "dict", n |-> 0, d |-> 1, s |-> "", items |-> items]
Cycler(v) == [t |-> "cycler", n |-> v.n, d |-> v.d, s |-> v.s, items |-> <<>>]
NoValue == [t |-> "none", n |-> 0, d |-> 1, s |-> "", items |-> <<>>]

IsDict(v) == v.t = "dict"
IsNumber(v) == v.t = "num"

RECURSIVE GCD(_, _)
GCD(a, b) == IF b = 0 THEN a ELSE GCD(b, a % b)

\* ticklen*ratio, tickwidth*ratio: the product of two numbers
Mul(a, b) ==
    LET n == a.n * b.n
        d == a.d * b.d
        g == GCD(n, d)
    IN  Num(n \div g, d \div g)

\* a product of a dict and anything raises TypeError
CanMul(a, b) == IsNumber(a) /\ IsNumber(b)

----------------------------------------------------------------------------
(* Static tables *)

Keys(items) == {items[i][1] : i \in 1..Len(items)}
Lookup(items, k) == items[CHOOSE i \in 1..Len(items) : items[i][1] = k][2]
ToMap(items) == [k \in Keys(items) |-> Lookup(items, k)]

rcGlobals == <<
    <<"color", Str("k")>>,
    <<"facecolor", Str("w")>>,
    <<"small", Num(8, 1)>>,
    <<"large", Num(9, 1)>>,
    <<"linewidth", Num(3, 5)>>,
    <<"bottom", Bool(TRUE)>>,
    <<"top", Bool(FALSE)>>,
    <<"left", Bool(TRUE)>>,
    <<"right", Bool(FALSE)>>,
    <<"ticklen", Num(4, 1)>>,
    <<"tickpad", Num(2, 1)>>,
    <<"inout", Str("out")>>,
    <<"fontname", Str("DejaVu Sans")>>,
    <<"tickratio", Num(1, 2)>>,
    <<"minorwidth", Num(4, 5)>> >>

rcGlobals_children == [
    color |-> <<"axes.labelcolor", "axes.edgecolor", "xtick.color", "ytick.color">>,
    facecolor |-> <<"axes.facecolor">>,
    small |-> <<"font.size", "xtick.labelsize", "ytick.labelsize",
                "axes.labelsize", "legend.fontsize">>,
    large |-> <<"abc.fontsize", "figure.titlesize", "axes.titlesize">>,
    linewidth |-> <<"axes.linewidth", "grid.linewidth", "xtick.major.width",
                    "ytick.major.width">>,
    fontname |-> <<"font.sans-serif">>,
    bottom |-> <<"xtick.major.bottom", "xtick.minor.bottom">>,
    top |-> <<"xtick.major.top", "xtick.minor.top">>,
    left |-> <<"ytick.major.left", "ytick.minor.left">>,
    right |-> <<"ytick.major.right", "ytick.minor.right">>,
    ticklen |-> <<"xtick.major.size", "ytick.major.size">>,
    inout |-> <<"xtick.direction", "ytick.direction">>,
    tickpad |-> <<"xtick.major.pad", "xtick.minor.pad", "ytick.major.pad",
                  "ytick.minor.pad">> ]

\* the entries of rcDefaults on keys of the modelled external store
rcDefaults == <<
    <<"figure.dpi", Num(90, 1)>>,
    <<"savefig.pad_inches", Num(0, 1)>>,
    <<"axes.facecolor", Str("(1,1,1,1)")>>,
    <<"axes.grid", Bool(TRUE)>>,
    <<"grid.color", Str("k")>>,
    <<"grid.linewidth", Num(3, 5)>>,
    <<"font.sans-serif", Str("DejaVu Sans")>> >>

\* the entries of rcSpecial that globals control, and two free ones
rcSpecial == <<
    <<"abc.fontsize", Lookup(rcGlobals, "large")>>,
    <<"gridminor.linewidth",
      Mul(Lookup(rcGlobals, "linewidth"), Lookup(rcGlobals, "minorwidth"))>>,
    <<"abc.weight", Str("bold")>>,
    <<"gridminor.color", Str("k")>> >>

\* the keys of the external store, in its iteration order (sorted)
rcParamsKeys == <<
    "axes.edgecolor", "axes.facecolor", "axes.grid", "axes.grid.axis",
    "axes.labelcolor", "axes.labelsize", "axes.linewidth", "axes.prop_cycle",
    "axes.titlesize", "figure.dpi", "figure.titlesize", "font.sans-serif",
    "font.size", "grid.color", "grid.linewidth", "legend.fontsize",
    "savefig.pad_inches", "xtick.color", "xtick.direction",
    "xtick.labelsize", "xtick.major.bottom", "xtick.major.pad",
    "xtick.major.size", "xtick.major.top", "xtick.major.width",
    "xtick.minor.bottom", "xtick.minor.pad", "xtick.minor.size",
    "xtick.minor.top", "xtick.minor.width", "ytick.color", "ytick.direction",
    "ytick.labelsize", "ytick.major.left", "ytick.major.pad",
    "ytick.major.right", "ytick.major.size", "ytick.major.width",
    "ytick.minor.left", "ytick.minor.pad", "ytick.minor.right",
    "ytick.minor.size", "ytick.minor.width" >>

\* the external store after style.use('default'): the library's own values
StyleDefault == [k \in {rcParamsKeys[i] : i \in 1..Len(rcParamsKeys)} |-> Str("mpl")]

----------------------------------------------------------------------------
(* The registry state as one record, and the outcome of a call *)

St == [p |-> rcParams, s |-> _rcSpecial, g |-> _rcGlobals, i |-> _init]

\* Below, CHOOSE y \in {e(r) : r \in {v}} : TRUE is "LET r == v IN e(r)" with
\* v computed exactly once, its value being named r.

Ok(st) == [st |-> st, err |-> ""]
Raise(st, e) == [st |-> st, err |-> e]

\* d[k] = v on a Python dict: the key is created when absent
Put(d, k, v) == (k :> v) @@ d

----------------------------------------------------------------------------
(* rc_configurator.__setitem__ *)

\* the child list of a global, rcGlobals_children.get(key, [])
Children(key) ==
    IF key \in DOMAIN rcGlobals_children THEN rcGlobals_children[key] ELSE <<>>

\* every key of a child list, with the globals whose child list holds it
AliasTable ==
    [k \in UNION {{rcGlobals_children[a][i] : i \in 1..Len(rcGlobals_children[a])} :
                  a \in DOMAIN rcGlobals_children} |->
        {a \in DOMAIN rcGlobals_children :
            \E i \in 1..Len(rcGlobals_children[a]) : rcGlobals_children[a][i] = k}]

\* a write that is not redirected to the controlling global
NoAlias(key) == {}

\* alias detection: the globals whose child list holds the key
Alias(key) == IF key \in DOMAIN AliasTable THEN AliasTable[key] ELSE {}

\* a single parameter written to the external store only
SetDirectExternalOnly(st, key, value) ==
    IF key \in DOMAIN st.p THEN Ok([st EXCEPT !.p[key] = value])
    ELSE IF key \in DOMAIN st.s THEN Ok(st)
    ELSE Raise(st, "ValueError")

\* a single parameter that lands in the special store when no store has it
SetDirectCreates(st, key, value) ==
    IF key \in DOMAIN st.p THEN Ok([st EXCEPT !.p[key] = value])
    ELSE Ok([st EXCEPT !.s = (key :> value) @@ @])

\* a single parameter: external store first, then the special store
SetDirect(st, key, value) ==
    IF key \in DOMAIN st.p THEN Ok([st EXCEPT !.p[key] = value])
    ELSE IF key \in DOMAIN st.s THEN Ok([st EXCEPT !.s[key] = value])
    ELSE Raise(st, "ValueError")

\* a child loop that skips the children of the special store
RECURSIVE SetChildrenExternalOnly(_, _, _)
SetChildrenExternalOnly(st, names, value) ==
    IF names = <<>> THEN Ok(st)
    ELSE LET name == Head(names) IN
         IF name \in DOMAIN st.p
         THEN SetChildrenExternalOnly([st EXCEPT !.p[name] = value], Tail(names), value)
         ELSE IF name \in DOMAIN st.s
         THEN SetChildrenExternalOnly(st, Tail(names), value)
         ELSE Raise(st, "ValueError")

\* the loop over the child list of a global
RECURSIVE SetChildren(_, _, _)
SetChildren(st, names, value) ==
    IF names = <<>> THEN Ok(st)
    ELSE LET name == Head(names) IN
         IF name \in DOMAIN st.p
         THEN CHOOSE y \in {SetChildren(st1, Tail(names), value) :
                            st1 \in {[st EXCEPT !.p[name] = value]}} : TRUE
         ELSE IF name \in DOMAIN st.s
         THEN CHOOSE y \in {SetChildren(st1, Tail(names), value) :
                            st1 \in {[st EXCEPT !.s[name] = value]}} : TRUE
         ELSE Raise(st, "ValueError")

\* minor tick length recomputed whatever global is set
SetTickSizeAnyKey(st, key, value) ==
    LET ticklen == IF key = "tickratio" THEN st.g["ticklen"] ELSE value
        ratio == IF key = "tickratio" THEN value ELSE st.g["tickratio"]
    IN  IF CanMul(ticklen, ratio)
        THEN Ok([st EXCEPT !.p = Put(Put(@, "xtick.minor.size", Mul(ticklen, ratio)),
                                     "ytick.minor.size", Mul(ticklen, ratio))])
        ELSE Raise(st, "TypeError")

\* minor tick length computed as if the key were always ticklen
SetTickSizeNoBranch(st, key, value) ==
    IF key \in {"ticklen", "tickratio"}
    THEN LET ticklen == value
             ratio == st.g["tickratio"]
         IN  IF CanMul(ticklen, ratio)
             THEN Ok([st EXCEPT !.p = Put(Put(@, "xtick.minor.size", Mul(ticklen, ratio)),
                                          "ytick.minor.size", Mul(ticklen, ratio))])
             ELSE Raise(st, "TypeError")
    ELSE Ok(st)

\* minor tick length, recomputed when ticklen or tickratio is set
SetTickSize(st, key, value) ==
    IF key \in {"ticklen", "tickratio"}
    THEN LET ticklen == IF key = "tickratio" THEN st.g["ticklen"] ELSE value
             ratio == IF key = "tickratio" THEN value ELSE st.g["tickratio"]
         IN  IF CanMul(ticklen, ratio)
             THEN Ok([st EXCEPT !.p = Put(Put(@, "xtick.minor.size", Mul(ticklen, ratio)),
                                          "ytick.minor.size", Mul(ticklen, ratio))])
             ELSE Raise(st, "TypeError")
    ELSE Ok(st)

\* minor tick width without the minor grid line width
SetTickWidthNoGrid(st, key, value) ==
    IF key \in {"linewidth", "minorwidth"}
    THEN LET tickwidth == IF key = "linewidth" THEN value ELSE st.g["linewidth"]
             ratio == IF key = "linewidth" THEN st.g["minorwidth"] ELSE value
         IN  IF CanMul(tickwidth, ratio)
             THEN Ok([st EXCEPT
                        !.p = Put(Put(@, "xtick.minor.width", Mul(tickwidth, ratio)),
                                  "ytick.minor.width", Mul(tickwidth, ratio))])
             ELSE Raise(st, "TypeError")
    ELSE Ok(st)

\* minor tick width and minor grid line width
SetTickWidth(st, key, value) ==
    IF key \in {"linewidth", "minorwidth"}
    THEN LET tickwidth == IF key = "linewidth" THEN value ELSE st.g["linewidth"]
             ratio == IF key = "linewidth" THEN st.g["minorwidth"] ELSE value
         IN  IF CanMul(tickwidth, ratio)
             THEN Ok([st EXCEPT
                        !.p = Put(Put(@, "xtick.minor.width", Mul(tickwidth, ratio)),
                                  "ytick.minor.width", Mul(tickwidth, ratio)),
                        !.s = Put(@, "gridminor.linewidth", Mul(tickwidth, ratio))])
             ELSE Raise(st, "TypeError")
    ELSE Ok(st)

\* the branch of a global property
SetGlobal(st, key, value) ==
    CHOOSE y \in
        {IF r2.err # "" THEN r2 ELSE SetChildren(r2.st, Children(key), value) :
         r2 \in {IF r1.err # "" THEN r1 ELSE SetTickWidth(r1.st, key, value) :
                 r1 \in {SetTickSize([st EXCEPT !.g[key] = value], key, value)}}} : TRUE

\* a dict branch that looks every composed key up before it writes any
SetBatchChecksFirst(st, key, kwargs) ==
    LET name(i) == key \o "." \o kwargs[i][1]
        written(d) == [c \in DOMAIN d |->
                         IF \E i \in 1..Len(kwargs) : name(i) = c
                         THEN kwargs[CHOOSE i \in 1..Len(kwargs) :
                                       /\ name(i) = c
                                       /\ \A j \in (i + 1)..Len(kwargs) : name(j) # c][2]
                         ELSE d[c]]
    IN  IF \E i \in 1..Len(kwargs) : name(i) \notin DOMAIN st.p \cup DOMAIN st.s
        THEN Raise(st, "ValueError")
        ELSE Ok([st EXCEPT !.p = written(@), !.s = written(@)])

\* the branch of a dict value: name = f'{key}.{name}' for every entry
RECURSIVE SetBatch(_, _, _)
SetBatch(st, key, kwargs) ==
    IF kwargs = <<>> THEN Ok(st)
    ELSE LET name == key \o "." \o Head(kwargs)[1]
             value == Head(kwargs)[2]
         IN  IF name \in DOMAIN st.p
             THEN CHOOSE y \in {SetBatch(st1, key, Tail(kwargs)) :
                                st1 \in {[st EXCEPT !.p[name] = value]}} : TRUE
             ELSE IF name \in DOMAIN st.s
             THEN CHOOSE y \in {SetBatch(st1, key, Tail(kwargs)) :
                                st1 \in {[st EXCEPT !.s[name] = value]}} : TRUE
             ELSE Raise(st, "ValueError")

\* the branch of 'cycle': the default palette first, then the requested one,
\* each written by a nested rc['axes.prop_cycle'] = ...
SetCycle(st, value) ==
    CHOOSE y \in
        {IF r1.err # "" THEN r1
         ELSE SetDirect([r1.st EXCEPT !.i = FALSE], "axes.prop_cycle", Cycler(value)) :
         r1 \in {SetDirect(st, "axes.prop_cycle", Cycler(Str("colorblind")))}} : TRUE

SetItem(st, key0, value) ==
    LET alias == Alias(key0)
        key == IF alias # {} THEN CHOOSE a \in alias : TRUE ELSE key0
    IN  CHOOSE y \in
            {IF r.err # "" THEN r ELSE Ok([r.st EXCEPT !.i = FALSE]) :
             r \in {IF key = "cycle" THEN SetCycle(st, value)
                    ELSE IF key \in DOMAIN st.g THEN SetGlobal(st, key, value)
                    ELSE IF ~IsDict(value) THEN SetDirect(st, key, value)
                    ELSE SetBatch(st, key, value.items)}} : TRUE

\* a sequence of rc[key] = value calls, stopped by the first that raises;
\* n counts the calls made
\* items[lo + 1 .. hi] assigned in order; the halves are run one after the
\* other, the second only when the first raised nothing
RECURSIVE SetRange(_, _, _, _)
SetRange(st, items, lo, hi) ==
    IF hi = lo THEN [st |-> st, err |-> "", n |-> 0]
    ELSE IF hi = lo + 1
    THEN CHOOSE y \in {[st |-> r.st, err |-> r.err, n |-> 1] :
                       r \in {SetItem(st, items[hi][1], items[hi][2])}} : TRUE
    ELSE CHOOSE y \in
             {IF a.err # "" THEN a
              ELSE CHOOSE z \in {[b EXCEPT !.n = a.n + b.n] :
                                 b \in {SetRange(a.st, items, (lo + hi) \div 2, hi)}} : TRUE :
              a \in {SetRange(st, items, lo, (lo + hi) \div 2)}} : TRUE

SetAll(st, items) ==
    CHOOSE y \in {SetRange(st, its, 0, Len(its)) : its \in {items}} : TRUE

----------------------------------------------------------------------------
(* rc_configurator.__init__ *)

RECURSIVE WriteAll(_, _)
WriteAll(p, items) ==
    IF items = <<>> THEN p
    ELSE WriteAll([p EXCEPT ![Head(items)[1]] = Head(items)[2]], Tail(items))

Construct ==
    LET st0 == [p |-> WriteAll(StyleDefault, rcDefaults),
                s |-> ToMap(rcSpecial),
                g |-> ToMap(rcGlobals),
                i |-> FALSE]
    IN  [SetAll(st0, <<<<"cycle", Str("colorblind")>>>> \o rcGlobals).st
            EXCEPT !.i = TRUE]

\* self._rcGlobals.items(): the global values in the table's order
GlobalItems(g) == [i \in 1..Len(rcGlobals) |-> <<rcGlobals[i][1], g[rcGlobals[i][1]]>>]

\* __init__ that keeps the global property values it finds
__init__KeepsGlobals(st) ==
    LET st0 == [p |-> WriteAll([k \in DOMAIN st.p |-> StyleDefault[k]], rcDefaults),
                s |-> ToMap(rcSpecial),
                g |-> st.g,
                i |-> st.i]
    IN  [SetAll(st0, <<<<"cycle", Str("colorblind")>>>> \o GlobalItems(st0.g)).st
            EXCEPT !.i = TRUE]

\* __init__ run on a registry that exists, as reset() runs it: the external
\* store is reset in place by style.use('default'), the special store and
\* the global values are replaced by copies of the static tables
__init__(st) ==
    LET st0 == [p |-> WriteAll([k \in DOMAIN st.p |-> StyleDefault[k]], rcDefaults),
                s |-> ToMap(rcSpecial),
                g |-> ToMap(rcGlobals),
                i |-> st.i]
    IN  [SetAll(st0, <<<<"cycle", Str("colorblind")>>>> \o GlobalItems(st0.g)).st
            EXCEPT !.i = TRUE]

----------------------------------------------------------------------------
(* rc_configurator.__getitem__ *)

EmptyMap == [k \in {} |-> NoValue]

Res(kind, v, m) == [kind |-> kind, v |-> v, m |-> m]

\* the special store's keys in its iteration (insertion) order
SpecialKeys == [i \in 1..Len(rcSpecial) |-> rcSpecial[i][1]]

\* re.match(f'^{key}$', category): a '.' of the key matches any character
Match(key, category) ==
    /\ Len(key) = Len(category)
    /\ \A i \in 1..Len(key) : SubSeq(key, i, i) \in {".", SubSeq(category, i, i)}

\* re.search(f'^{key}\.', category)
Search(key, category) ==
    /\ Len(category) > Len(key)
    /\ \A i \in 1..Len(key) : SubSeq(key, i, i) \in {".", SubSeq(category, i, i)}
    /\ SubSeq(category, Len(key) + 1, Len(key) + 1) = "."

\* re.sub(f'^{key}.', '', category) of a category that Search accepts
Subcategory(key, category) == SubSeq(category, Len(key) + 2, Len(category))

HasDot(str) == \E i \in 1..Len(str) : SubSeq(str, i, i) = "."

\* one pass over a store: an exact match returns d[key] at once, a
\* one-level subcategory is collected into params
RECURSIVE Scan(_, _, _, _)
Scan(d, categories, key, params) ==
    IF categories = <<>> THEN Res("scan", NoValue, params)
    ELSE LET category == Head(categories)
             rest == Tail(categories)
         IN  IF category \notin DOMAIN d THEN Scan(d, rest, key, params)
             ELSE IF Match(key, category)
             THEN IF key \in DOMAIN d THEN Res("value", d[key], EmptyMap)
                  ELSE Res("KeyError", NoValue, EmptyMap)
             ELSE IF /\ Search(key, category)
                     /\ Subcategory(key, category) # ""
                     /\ ~HasDot(Subcategory(key, category))
             THEN Scan(d, rest, key, Put(params, Subcategory(key, category), d[category]))
             ELSE Scan(d, rest, key, params)

GetItem(st, key) ==
    IF key = "" THEN Res("mapping", NoValue, st.s @@ st.p)
    ELSE IF key \in DOMAIN st.g THEN Res("value", st.g[key], EmptyMap)
    ELSE LET r1 == Scan(st.p, rcParamsKeys, key, EmptyMap)
             r2 == Scan(st.s, SpecialKeys, key, r1.m)
         IN  IF r1.kind # "scan" THEN r1
             ELSE IF r2.kind # "scan" THEN r2
             ELSE IF DOMAIN r2.m = {} THEN Res("ValueError", NoValue, EmptyMap)
             ELSE Res("mapping", NoValue, r2.m)

----------------------------------------------------------------------------
(* rc_context *)

\* kwargs.update(arg): a present key keeps its place, a new one is appended
RECURSIVE Update(_, _)
Update(kwargs, items) ==
    IF items = <<>> THEN kwargs
    ELSE LET k == Head(items)[1]
             v == Head(items)[2]
         IN  IF k \in Keys(kwargs)
             THEN Update([i \in 1..Len(kwargs) |->
                            IF kwargs[i][1] = k THEN <<k, v>> ELSE kwargs[i]],
                         Tail(items))
             ELSE Update(Append(kwargs, <<k, v>>), Tail(items))

\* the loop over the positional arguments of rc_context(ax, *args, **kwargs)
RECURSIVE ParseArgs(_, _)
ParseArgs(args, kwargs) ==
    IF args = <<>> THEN [kwargs |-> kwargs, err |-> ""]
    ELSE IF ~IsDict(Head(args)) THEN [kwargs |-> kwargs, err |-> "ValueError"]
    ELSE ParseArgs(Tail(args), Update(kwargs, Head(args).items))

\* a context object that snapshots whatever the overrides are
ContextAlwaysSnapshots(st, kwargs) ==
    [nochange |-> FALSE, kwargs |-> kwargs, special |-> st.s,
     rcparams |-> st.p, status |-> "new", atNew |-> st]

\* the context object; atNew records the registry at construction
Context(st, kwargs) ==
    IF kwargs = <<>>
    THEN [nochange |-> TRUE, kwargs |-> <<>>, special |-> EmptyMap,
          rcparams |-> EmptyMap, status |-> "new", atNew |-> st]
    ELSE [nochange |-> FALSE, kwargs |-> kwargs, special |-> st.s,
          rcparams |-> st.p, status |-> "new", atNew |-> st]

\* {**self._rcparams, **self._special}.items(): the external store's keys in
\* its order with the special store's value on a collision, then the rest of
\* the special store's keys
RECURSIVE MergedItems(_, _, _)
MergedItems(order, rcparams, special) ==
    IF order = <<>> THEN <<>>
    ELSE LET k == Head(order)
             rest == MergedItems(Tail(order), rcparams, special)
         IN  IF k \in DOMAIN special THEN <<<<k, special[k]>>>> \o rest
             ELSE IF k \in DOMAIN rcparams THEN <<<<k, rcparams[k]>>>> \o rest
             ELSE rest

RECURSIVE Without(_, _)
Without(order, d) ==
    IF order = <<>> THEN <<>>
    ELSE IF Head(order) \in DOMAIN d THEN Without(Tail(order), d)
    ELSE <<Head(order)>> \o Without(Tail(order), d)

Snapshot(ctx) ==
    MergedItems(rcParamsKeys \o Without(SpecialKeys, ctx.rcparams),
                ctx.rcparams, ctx.special)

\* an entry that puts the registry back when an override raises
EnterContextRollsBack(st, ctx) ==
    IF ~ctx.nochange
    THEN CHOOSE y \in {IF r.err # "" THEN [r EXCEPT !.st = st] ELSE r :
                       r \in {SetAll(st, ctx.kwargs)}} : TRUE
    ELSE [st |-> st, err |-> "", n |-> 0]

\* __enter__
EnterContext(st, ctx) ==
    IF ~ctx.nochange THEN SetAll(st, ctx.kwargs)
    ELSE [st |-> st, err |-> "", n |-> 0]

\* __exit__
ExitContext(st, ctx) ==
    IF ~ctx.nochange THEN SetAll(st, Snapshot(ctx))
    ELSE [st |-> st, err |-> "", n |-> 0]

\* __exit__ returns None: the error of the body is not suppressed
ExitReturn == FALSE

----------------------------------------------------------------------------
(* Bounds and inputs *)

MaxOps == 2
MaxScopeOps == 1
MaxScopes == 2

GlobalNames == Keys(rcGlobals)

ChildKeys == UNION {{rcGlobals_children[g][i] : i \in 1..Len(rcGlobals_children[g])} :
                    g \in DOMAIN rcGlobals_children}

DerivedKeys == {"xtick.minor.size", "ytick.minor.size", "xtick.minor.width",
                "ytick.minor.width", "gridminor.linewidth"}

\* the concrete keys of the initial stores that no global controls
FreeKeys == (Keys(rcSpecial) \cup {rcParamsKeys[i] : i \in 1..Len(rcParamsKeys)}) \ ChildKeys

UnknownKeys == {"also.fake"}

\* every key takes Ten; the globals with a product, and two plain ones,
\* also take Quarter; a global with a product and one without take a string
Ten == Num(10, 1)
Quarter == Num(1, 4)

ScalarInputs ==
    ((GlobalNames \cup ChildKeys \cup FreeKeys \cup UnknownKeys \cup {"cycle"}) \X {Ten})
    \cup ({"ticklen", "tickratio", "linewidth", "minorwidth", "color", "large"} \X {Quarter})
    \cup ({"ticklen", "color"} \X {Str("r")})

DictInputs == {
    <<"ytick", Dict(<<<<"major.size", Num(7, 1)>>>>)>>,
    <<"xtick", Dict(<<<<"minor.size", Num(3, 1)>>, <<"fake", Num(1, 1)>>,
                      <<"color", Str("r")>>>>)>>,
    <<"abc", Dict(<<<<"weight", Str("normal")>>, <<"fontsize", Num(7, 1)>>>>)>>,
    <<"axes.grid", Dict(<<<<"axis", Str("x")>>>>)>>,
    <<"figure.dpi", Dict(<<>>)>>,
    <<"xtick.major.size", Dict(<<>>)>>,
    <<"tickratio", Dict(<<>>)>>,
    <<"color", Dict(<<<<"fake", Num(1, 1)>>>>)>> }

SetInputs == ScalarInputs \cup DictInputs

GetInputs == {"", "ticklen", "xtick", "xtick.major", "axes.grid", "abc",
              "not.a.real.key", "savefig.pad.inches", "x.ick"}

\* the inputs of the operations that run around and inside a context
ScopeSetInputs == {
    <<"ytick", Dict(<<<<"major.size", Num(7, 1)>>>>)>>,
    <<"large", Ten>>,
    <<"figure.dpi", Ten>>,
    <<"also.fake", Ten>> }

ScopeGetInputs == {"", "ticklen"}

\* rc_context(ax, *args, **kwargs): the positional and the keyword arguments
ScopeInputs == {
    [args |-> <<>>, kwargs |-> <<>>],
    [args |-> <<Dict(<<>>)>>, kwargs |-> <<>>],
    [args |-> <<>>, kwargs |-> <<<<"ticklen", Ten>>>>],
    [args |-> <<>>, kwargs |-> <<<<"tickratio", Quarter>>>>],
    [args |-> <<Dict(<<<<"figure.dpi", Ten>>, <<"also.fake", Ten>>,
                       <<"abc.weight", Str("normal")>>>>)>>,
     kwargs |-> <<<<"figure.dpi", Quarter>>>>],
    [args |-> <<Ten>>, kwargs |-> <<<<"ticklen", Ten>>>>] }

----------------------------------------------------------------------------
(* Operations *)

NoCtx == [Context(Construct, <<>>) EXCEPT !.status = "none"]

Last(op, key, value, err, res, n, ctx, raised) ==
    [op |-> op, key |-> key, value |-> value, err |-> err, res |-> res,
     pre |-> St, n |-> n, ctx |-> ctx, raised |-> raised, suppressed |-> FALSE]

Becomes(st) ==
    /\ rcParams' = st.p
    /\ _rcSpecial' = st.s
    /\ _rcGlobals' = st.g
    /\ _init' = st.i

Init ==
    /\ rcParams = Construct.p
    /\ _rcSpecial = Construct.s
    /\ _rcGlobals = Construct.g
    /\ _init = Construct.i
    /\ ctxs = <<>>
    /\ stack = <<>>
    /\ last = [op |-> "init", key |-> "", value |-> NoValue, err |-> "",
               res |-> Res("none", NoValue, EmptyMap), pre |-> Construct, n |-> 0,
               ctx |-> NoCtx, raised |-> FALSE, suppressed |-> FALSE]
    /\ nops = 0

\* rc[key] = value
Set(key, value) ==
    \E r \in {SetItem(St, key, value)} :
        /\ Becomes(r.st)
        /\ last' = Last("set", key, value, r.err, Res("none", NoValue, EmptyMap), 1,
                        NoCtx, FALSE)
        /\ nops' = nops + 1
        /\ UNCHANGED <<ctxs, stack>>

\* rc[key]
Get(key) ==
    \E r \in {GetItem(St, key)} :
        /\ last' = Last("get", key, NoValue,
                        IF r.kind \in {"ValueError", "KeyError"} THEN r.kind ELSE "",
                        r, 0, NoCtx, FALSE)
        /\ nops' = nops + 1
        /\ UNCHANGED <<rcParams, _rcSpecial, _rcGlobals, _init, ctxs, stack>>

\* rc.reset()
reset ==
    /\ \E st \in {__init__(St)} : Becomes(st)
    /\ last' = Last("reset", "", NoValue, "", Res("none", NoValue, EmptyMap), 0,
                    NoCtx, FALSE)
    /\ nops' = nops + 1
    /\ UNCHANGED <<ctxs, stack>>

\* rc_context(ax, *args, **kwargs)
New(args, kwargs) ==
    \E r \in {ParseArgs(args, kwargs)} : \E ctx \in {Context(St, r.kwargs)} :
        /\ ctxs' = IF r.err = "" THEN Append(ctxs, ctx) ELSE ctxs
        /\ last' = Last("new", "", NoValue, r.err, Res("none", NoValue, EmptyMap), 0,
                        IF r.err = "" THEN ctx ELSE NoCtx, FALSE)
        /\ UNCHANGED <<rcParams, _rcSpecial, _rcGlobals, _init, stack, nops>>

\* with ctx: the entry.  When __enter__ raises, __exit__ is never called
Enter(i) ==
    /\ ctxs[i].status = "new"
    /\ \E r \in {EnterContext(St, ctxs[i])} :
        /\ Becomes(r.st)
        /\ ctxs' = [ctxs EXCEPT ![i].status = IF r.err = "" THEN "entered" ELSE "failed"]
        /\ stack' = IF r.err = "" THEN Append(stack, i) ELSE stack
        /\ last' = Last("enter", "", NoValue, r.err, Res("none", NoValue, EmptyMap), r.n,
                        ctxs[i], FALSE)
        /\ UNCHANGED nops

\* with ctx: the exit of the innermost entered context, after a body that
\* completed or raised
Exit(raised) ==
    /\ stack # <<>>
    /\ \E i \in {stack[Len(stack)]} : \E r \in {ExitContext(St, ctxs[i])} :
        /\ Becomes(r.st)
        /\ ctxs' = [ctxs EXCEPT ![i].status = "done"]
        /\ stack' = SubSeq(stack, 1, Len(stack) - 1)
        /\ last' = [Last("exit", "", NoValue, r.err, Res("none", NoValue, EmptyMap), r.n,
                         ctxs[i], raised) EXCEPT !.suppressed = ExitReturn]
        /\ UNCHANGED nops

SetOp == nops < MaxOps /\ \E in \in SetInputs : Set(in[1], in[2])
GetOp == nops < MaxOps /\ \E key \in GetInputs : Get(key)
ResetOp == nops < MaxOps /\ reset

Next == SetOp \/ GetOp \/ ResetOp

Spec == Init /\ [][Next]_vars

ScopeSetOp == nops < MaxScopeOps /\ \E in \in ScopeSetInputs : Set(in[1], in[2])
ScopeGetOp == nops < MaxScopeOps /\ \E key \in ScopeGetInputs : Get(key)
ScopeResetOp == nops < MaxScopeOps /\ reset
NewOp == Len(ctxs) < MaxScopes /\ \E in \in ScopeInputs : New(in.args, in.kwargs)
EnterOp == \E i \in 1..Len(ctxs) : Enter(i)
ExitOp == \E raised \in BOOLEAN : Exit(raised)

ScopeNext == ScopeSetOp \/ ScopeGetOp \/ ScopeResetOp \/ NewOp \/ EnterOp \/ ExitOp

ScopeSpec == Init /\ [][ScopeNext]_vars

----------------------------------------------------------------------------
(* Properties *)

\* the global that controls a key (the key itself when none does)
OwnerOf(key) ==
    IF \E g \in DOMAIN rcGlobals_children :
          \E i \in 1..Len(rcGlobals_children[g]) : rcGlobals_children[g][i] = key
    THEN CHOOSE g \in DOMAIN rcGlobals_children :
          \E i \in 1..Len(rcGlobals_children[g]) : rcGlobals_children[g][i] = key
    ELSE key

ChildrenOf(g) == {rcGlobals_children[g][i] : i \in 1..Len(rcGlobals_children[g])}

\* the concrete keys of a registry state
ConcreteKeys(st) == DOMAIN st.p \cup DOMAIN st.s

\* the merged mapping get('') of a registry state
Merged(st) == st.s @@ st.p

Returns(v) == Res("value", v, EmptyMap)

\* C1: immediately after a successful set(g, v) on a global property g that
\* has a child list, get(c) returns v for every child key c of g, in
\* whichever store c lives.
C1_ChildrenReflectValue ==
    (last.op = "set" /\ last.err = "" /\ last.key \in DOMAIN rcGlobals_children) =>
        \A c \in ChildrenOf(last.key) : GetItem(St, c) = Returns(last.value)

\* a set of 'large' reached both its child in the special store and one in
\* the external store
C1_Witness ==
    /\ last.op = "set" /\ last.err = "" /\ last.key = "large" /\ last.value = Ten
    /\ last.pre.s["abc.fontsize"] # Ten
    /\ GetItem(St, "abc.fontsize") = Returns(Ten)
    /\ GetItem(St, "figure.titlesize") = Returns(Ten)

\* C2: set(k, v) on a key k of the child list of a global g ends in the
\* state, and with the outcome, of set(g, v) from the same state; when it
\* succeeds g, every child of g and the parameters derived from g hold v.
C2_AliasRedirection ==
    (last.op = "set" /\ last.key \in ChildKeys) =>
        LET g == OwnerOf(last.key)
            r == SetItem(last.pre, g, last.value)
        IN  /\ St = r.st
            /\ last.err = r.err
            /\ last.err = "" =>
                /\ _rcGlobals[g] = last.value
                /\ \A c \in ChildrenOf(g) : GetItem(St, c) = Returns(last.value)
                /\ g = "ticklen" =>
                     rcParams["xtick.minor.size"] = Mul(last.value, _rcGlobals["tickratio"])
                /\ g = "linewidth" =>
                     _rcSpecial["gridminor.linewidth"] =
                        Mul(last.value, _rcGlobals["minorwidth"])

\* a set of 'ytick.major.size' changed ticklen, the other child and the
\* minor tick size
C2_Witness ==
    /\ last.op = "set" /\ last.err = "" /\ last.key = "ytick.major.size"
    /\ last.value = Ten
    /\ last.pre.g["ticklen"] # Ten
    /\ _rcGlobals["ticklen"] = Ten
    /\ rcParams["xtick.major.size"] = Ten
    /\ rcParams["xtick.minor.size"] # last.pre.p["xtick.minor.size"]

\* C3: immediately after a successful set of 'ticklen' or 'tickratio' (by
\* name or through a child key), both minor tick sizes equal ticklen times
\* tickratio, with the value just set for the one that was set and the
\* value stored before the call for the other.
C3_MinorTickSize ==
    (last.op = "set" /\ last.err = "" /\ OwnerOf(last.key) \in {"ticklen", "tickratio"}) =>
        LET ticklen == IF OwnerOf(last.key) = "ticklen" THEN last.value
                       ELSE last.pre.g["ticklen"]
            ratio == IF OwnerOf(last.key) = "tickratio" THEN last.value
                     ELSE last.pre.g["tickratio"]
        IN  /\ _rcGlobals["ticklen"] = ticklen
            /\ _rcGlobals["tickratio"] = ratio
            /\ GetItem(St, "xtick.minor.size") = Returns(Mul(ticklen, ratio))
            /\ GetItem(St, "ytick.minor.size") = Returns(Mul(ticklen, ratio))

\* tickratio set to 1/4 with ticklen 4: the minor tick size is 1
C3_Witness ==
    /\ last.op = "set" /\ last.err = "" /\ last.key = "tickratio"
    /\ last.value = Quarter
    /\ _rcGlobals["ticklen"] = Num(4, 1)
    /\ rcParams["xtick.minor.size"] = Num(1, 1)
    /\ rcParams["ytick.minor.size"] = Num(1, 1)

\* C4: immediately after a successful set of 'linewidth' or 'minorwidth' (by
\* name or through a child key), both minor tick widths (external store) and
\* 'gridminor.linewidth' (special store) equal linewidth times minorwidth.
C4_MinorTickWidth ==
    (last.op = "set" /\ last.err = "" /\ OwnerOf(last.key) \in {"linewidth", "minorwidth"}) =>
        LET tickwidth == IF OwnerOf(last.key) = "linewidth" THEN last.value
                         ELSE last.pre.g["linewidth"]
            ratio == IF OwnerOf(last.key) = "minorwidth" THEN last.value
                     ELSE last.pre.g["minorwidth"]
        IN  /\ _rcGlobals["linewidth"] = tickwidth
            /\ _rcGlobals["minorwidth"] = ratio
            /\ rcParams["xtick.minor.width"] = Mul(tickwidth, ratio)
            /\ rcParams["ytick.minor.width"] = Mul(tickwidth, ratio)
            /\ _rcSpecial["gridminor.linewidth"] = Mul(tickwidth, ratio)
            /\ "gridminor.linewidth" \notin DOMAIN rcParams

\* minorwidth set to 1/4 with linewidth 10: the widths are 5/2
C4_Witness ==
    /\ last.op = "set" /\ last.err = "" /\ last.key = "minorwidth"
    /\ last.value = Quarter
    /\ _rcGlobals["linewidth"] = Ten
    /\ rcParams["xtick.minor.width"] = Num(5, 2)
    /\ _rcSpecial["gridminor.linewidth"] = Num(5, 2)

\* C8 as stated: for every concrete key k of either store that is in no
\* child list, and every value v, a successful set(k, v) followed by get(k)
\* returns v.
C8_RoundTripAnyValue ==
    (/\ last.op = "set" /\ last.err = ""
     /\ last.key \in ConcreteKeys(last.pre) \ ChildKeys) =>
        GetItem(St, last.key) = Returns(last.value)

\* C8: for every concrete key k of either store that is in no child list,
\* and every value v that is not a mapping, set(k, v) succeeds and get(k)
\* then returns v.
C8_RoundTrip ==
    (/\ last.op = "set" /\ ~IsDict(last.value)
     /\ last.key \in ConcreteKeys(last.pre) \ ChildKeys) =>
        /\ last.err = ""
        /\ GetItem(St, last.key) = Returns(last.value)

\* a free key of the special store was set and reads back
C8_Witness ==
    /\ last.op = "set" /\ last.err = "" /\ last.key = "abc.weight"
    /\ last.value = Ten
    /\ last.pre.s["abc.weight"] # Ten
    /\ GetItem(St, "abc.weight") = Returns(Ten)

\* key + '.' is a literal prefix of a concrete key
IsCategoryPrefix(st, key) ==
    \E c \in ConcreteKeys(st) :
        /\ Len(c) > Len(key)
        /\ SubSeq(c, 1, Len(key) + 1) = key \o "."

\* C9: get(k) fails with UnknownKey (ValueError) for a key that is no global
\* property name, no concrete key and no category prefix of a concrete key;
\* set(k, v) of a non-mapping v fails with UnknownKey for a key that is not
\* 'cycle', no global property name, not alias-controlled and in neither
\* store, and leaves both stores and every global property value unchanged.
C9_UnknownKeys ==
    /\ (/\ last.op = "get" /\ last.key # ""
        /\ last.key \notin DOMAIN _rcGlobals
        /\ last.key \notin ConcreteKeys(St)
        /\ ~IsCategoryPrefix(St, last.key)) => last.res.kind \in {"ValueError", "KeyError"}
    /\ (/\ last.op = "set" /\ ~IsDict(last.value)
        /\ last.key # "cycle"
        /\ last.key \notin DOMAIN last.pre.g
        /\ last.key \notin ChildKeys
        /\ last.key \notin ConcreteKeys(last.pre)) =>
            /\ last.err = "ValueError"
            /\ St = last.pre

\* C10: the key sets of the two stores never change and stay disjoint, so
\* every child key of every global lives in exactly one store; a successful
\* set of a global writes each child in the store that held it.
C10_StoreExclusivity ==
    /\ DOMAIN rcParams = DOMAIN Construct.p
    /\ DOMAIN _rcSpecial = DOMAIN Construct.s
    /\ DOMAIN rcParams \cap DOMAIN _rcSpecial = {}
    /\ ChildKeys \subseteq DOMAIN rcParams \cup DOMAIN _rcSpecial
    /\ (last.op = "set" /\ last.err = "" /\ OwnerOf(last.key) \in DOMAIN rcGlobals_children) =>
        \A c \in ChildrenOf(OwnerOf(last.key)) :
            /\ c \in DOMAIN last.pre.p => rcParams[c] = last.value
            /\ c \in DOMAIN last.pre.s => _rcSpecial[c] = last.value

\* after a context was exited, a set of 'large' wrote its child in the
\* special store and its children in the external store
C10_Witness ==
    /\ \E i \in 1..Len(ctxs) : ctxs[i].status = "done" /\ ~ctxs[i].nochange
    /\ last.op = "set" /\ last.err = "" /\ last.key = "large"
    /\ _rcSpecial["abc.fontsize"] = Ten
    /\ rcParams["axes.titlesize"] = Ten

\* C5: after a context with the override {ticklen: 10} is entered and
\* exited, get('ticklen') is the value it had when the context was
\* constructed, whether the body raised or not, and the exit does not
\* suppress the error of the body.
C5_TicklenRestored ==
    (last.op = "exit" /\ last.ctx.kwargs = <<<<"ticklen", Ten>>>>) =>
        /\ GetItem(St, "ticklen") = Returns(last.ctx.atNew.g["ticklen"])
        /\ ~last.suppressed

\* C6: after a context with a nonempty override mapping of recognized keys
\* is entered and exited, get('') equals the merged mapping of the moment
\* the context was constructed.
C6_ExitRestoresStores ==
    (/\ last.op = "exit" /\ last.ctx.kwargs # <<>>
     /\ \A k \in Keys(last.ctx.kwargs) :
            k \in DOMAIN last.ctx.atNew.g \cup ChildKeys \cup ConcreteKeys(last.ctx.atNew)) =>
        GetItem(St, "").m = Merged(last.ctx.atNew)

\* C7: a context constructed with no override entries takes no snapshot, and
\* its entry and its exit make no set call and leave the registry, hence
\* get(''), as it was.
C7_EmptyScopeNoOp ==
    /\ (last.op \in {"new", "enter", "exit"} /\ last.err = "" /\ last.ctx.kwargs = <<>>) =>
        /\ last.ctx.nochange
        /\ last.ctx.special = EmptyMap
        /\ last.ctx.rcparams = EmptyMap
        /\ last.n = 0
        /\ St = last.pre
        /\ GetItem(St, "") = GetItem(last.pre, "")
    /\ \A i \in 1..Len(ctxs) : ctxs[i].kwargs = <<>> => ctxs[i].nochange

\* an empty context was exited in a registry that had left its defaults
C7_Witness ==
    /\ last.op = "exit" /\ last.ctx.kwargs = <<>> /\ last.raised
    /\ ~_init
    /\ St # Construct

\* the last operation was a set of a mapping that took the batch branch
IsBatchSet ==
    /\ last.op = "set" /\ IsDict(last.value)
    /\ last.key # "cycle"
    /\ last.key \notin DOMAIN last.pre.g
    /\ last.key \notin ChildKeys

\* the entries of the mapping of the last set, under their composed keys
BatchItems ==
    [i \in 1..Len(last.value.items) |->
        <<last.key \o "." \o last.value.items[i][1], last.value.items[i][2]>>]

\* C11: for a key that is not 'cycle', no global property name and not
\* alias-controlled, set(key, mapping) leaves both stores and the global
\* property values as the single calls set(key.subname, subvalue), made one
\* after another in the mapping's order, leave them.
C11_BatchAsSingleSets ==
    IsBatchSet =>
        LET r == SetAll(last.pre, BatchItems)
        IN  /\ rcParams = r.st.p
            /\ _rcSpecial = r.st.s
            /\ _rcGlobals = r.st.g

\* the index of the first entry whose composed key is in neither store of
\* the state before the last set, 0 when there is none
FirstUnknown ==
    LET unknown == {i \in 1..Len(BatchItems) : BatchItems[i][1] \notin ConcreteKeys(last.pre)}
    IN  IF unknown = {} THEN 0 ELSE CHOOSE i \in unknown : \A j \in unknown : i <= j

\* a store after the first n entries were written in it
WrittenUpTo(d, n) ==
    [c \in DOMAIN d |->
        IF \E i \in 1..n : BatchItems[i][1] = c
        THEN BatchItems[CHOOSE i \in 1..n :
                          /\ BatchItems[i][1] = c
                          /\ \A j \in (i + 1)..n : BatchItems[j][1] # c][2]
        ELSE d[c]]

\* C12: when set(key, mapping) meets an entry whose composed key is in
\* neither store it fails with UnknownKey (ValueError); the entries before
\* it are written, no entry after it is, and nothing else changes.
C12_NoRollback ==
    (IsBatchSet /\ FirstUnknown > 0) =>
        /\ last.err = "ValueError"
        /\ rcParams = WrittenUpTo(last.pre.p, FirstUnknown - 1)
        /\ _rcSpecial = WrittenUpTo(last.pre.s, FirstUnknown - 1)
        /\ _rcGlobals = last.pre.g

\* the batch on 'xtick' wrote its first entry, failed at the second and
\* never wrote the third
C12_Witness ==
    /\ IsBatchSet /\ last.key = "xtick" /\ last.err = "ValueError"
    /\ FirstUnknown = 2
    /\ last.pre.p["xtick.minor.size"] # Num(3, 1)
    /\ rcParams["xtick.minor.size"] = Num(3, 1)
    /\ rcParams["xtick.color"] = last.pre.p["xtick.color"]
    /\ rcParams["xtick.color"] # Str("r")

\* the entries of both stores whose key is key + '.' + rest with a nonempty
\* rest that has no dot, as the mapping {rest: value}
CategoryOf(st, key) ==
    LET members == {c \in ConcreteKeys(st) :
                      /\ Len(c) > Len(key) + 1
                      /\ SubSeq(c, 1, Len(key) + 1) = key \o "."
                      /\ ~HasDot(SubSeq(c, Len(key) + 2, Len(c)))}
    IN  [rest \in {SubSeq(c, Len(key) + 2, Len(c)) : c \in members} |->
            Merged(st)[key \o "." \o rest]]

\* C13: for a nonempty key that is no global property name, get(key)
\* returns the value of the concrete key equal to key when there is one;
\* otherwise the mapping of the one-level entries under key + '.', and it
\* fails with UnknownKey when that mapping is empty.
C13_CategoryGet ==
    (last.op = "get" /\ last.key # "" /\ last.key \notin DOMAIN _rcGlobals) =>
        IF last.key \in ConcreteKeys(St)
        THEN last.res = Returns(Merged(St)[last.key])
        ELSE IF DOMAIN CategoryOf(St, last.key) = {}
        THEN last.res.kind \in {"ValueError", "KeyError"}
        ELSE last.res = Res("mapping", NoValue, CategoryOf(St, last.key))

NestedScopes ==
    /\ Len(ctxs) = 2 /\ nops = 0
    /\ ~ctxs[1].nochange /\ ~ctxs[2].nochange
    /\ ctxs[2].atNew = EnterContext(ctxs[1].atNew, ctxs[1]).st

\* C15: with an outer context constructed and entered, an inner one then
\* constructed, entered and exited, and the outer exited last, get('')
\* after the inner exit is the mapping of the moment the inner was
\* constructed, and after the outer exit that of the moment the outer was
\* constructed.
C15_NestedScopesRestore ==
    /\ (/\ NestedScopes /\ last.op = "exit"
        /\ ctxs[1].status = "entered" /\ ctxs[2].status = "done") =>
            GetItem(St, "").m = Merged(ctxs[2].atNew)
    /\ (/\ NestedScopes /\ last.op = "exit"
        /\ ctxs[1].status = "done" /\ ctxs[2].status = "done"
        /\ last.ctx.kwargs = ctxs[1].kwargs /\ last.ctx.atNew = ctxs[1].atNew) =>
            GetItem(St, "").m = Merged(ctxs[1].atNew)

\* C16: after a context whose overrides set a global property (by its
\* name; 'tickratio' and 'minorwidth' included) is entered and exited,
\* get(g) of every global property g is its value of before the scope,
\* whether the body raised or not.
C16_ExitRestoresGlobals ==
    (/\ last.op = "exit" /\ ~last.ctx.nochange
     /\ \E k \in Keys(last.ctx.kwargs) : k \in DOMAIN last.ctx.atNew.g) =>
        \A g \in DOMAIN _rcGlobals : GetItem(St, g) = Returns(last.ctx.atNew.g[g])

\* the child keys of a global, none for a global without a child list
ChildSet(g) == IF g \in DOMAIN rcGlobals_children THEN ChildrenOf(g) ELSE {}

\* the derived parameters that depend on a global
DerivedOf(g) ==
    IF g \in {"ticklen", "tickratio"} THEN {"xtick.minor.size", "ytick.minor.size"}
    ELSE IF g \in {"linewidth", "minorwidth"}
    THEN {"xtick.minor.width", "ytick.minor.width", "gridminor.linewidth"}
    ELSE {}

\* C17: set(g, v) on a global property g changes only the stored value of
\* g, the child keys of g and the derived parameters that depend on g;
\* every other global value and every other concrete key of both stores
\* is as before.  set('tickratio', 1/4) leaves get('ticklen') as it was.
C17_GlobalSetFrame ==
    (last.op = "set" /\ last.key \in DOMAIN last.pre.g) =>
        LET g == last.key
            touched == ChildSet(g) \cup DerivedOf(g)
        IN  /\ \A h \in DOMAIN _rcGlobals \ {g} : _rcGlobals[h] = last.pre.g[h]
            /\ DOMAIN rcParams = DOMAIN last.pre.p
            /\ DOMAIN _rcSpecial = DOMAIN last.pre.s
            /\ \A c \in DOMAIN rcParams \ touched : rcParams[c] = last.pre.p[c]
            /\ \A c \in DOMAIN _rcSpecial \ touched : _rcSpecial[c] = last.pre.s[c]
            /\ g = "tickratio" => GetItem(St, "ticklen") = GetItem(last.pre, "ticklen")

\* tickratio set to 1/4 from ticklen 4: the minor size became 1, ticklen
\* and the major sizes stayed 4
C17_Witness ==
    /\ last.op = "set" /\ last.err = "" /\ last.key = "tickratio"
    /\ last.value = Quarter
    /\ last.pre.g["ticklen"] = Num(4, 1)
    /\ last.pre.p["xtick.minor.size"] = Num(2, 1)
    /\ rcParams["xtick.minor.size"] = Num(1, 1)
    /\ GetItem(St, "ticklen") = Returns(Num(4, 1))
    /\ rcParams["xtick.major.size"] = Num(4, 1)

\* the exited context was entered in the registry that a set, made after its
\* construction and changing a store, had left
SetBeforeEntry ==
    /\ last.op = "exit" /\ ~last.ctx.nochange
    /\ \E in \in ScopeSetInputs :
          LET r == SetItem(last.ctx.atNew, in[1], in[2])
          IN  /\ r.err = ""
              /\ Merged(r.st) # Merged(last.ctx.atNew)
              /\ last.pre = EnterContext(r.st, last.ctx).st

\* C18: the snapshot of a context with overrides is that of its
\* construction: after a set made between construction and entry, the
\* entry and the exit, the concrete keys of both stores hold their values
\* of the moment of construction.
C18_SnapshotAtConstruction ==
    SetBeforeEntry =>
        /\ rcParams = last.ctx.atNew.p
        /\ _rcSpecial = last.ctx.atNew.s

\* every child key of every global holds the stored value of its global
Consistent(st) ==
    \A g \in DOMAIN rcGlobals_children : \A c \in ChildrenOf(g) :
        /\ c \in ConcreteKeys(st)
        /\ Merged(st)[c] = st.g[g]

\* the last operation is one that the invariant is stated for: a reset, a
\* get, a set of a non-mapping value on a global name, an alias-controlled
\* key or a free concrete key, or the construction, entry or exit of a
\* context whose overrides are non-mapping values on such keys and whose
\* snapshot was taken in a consistent registry
PlainOperation ==
    LET plain(key, value) ==
            /\ ~IsDict(value)
            /\ key \in GlobalNames \cup ChildKeys \cup FreeKeys
    IN  \/ last.op \in {"init", "reset", "get", "new"}
        \/ last.op = "set" /\ plain(last.key, last.value)
        \/ /\ last.op \in {"enter", "exit"}
           /\ Consistent(last.ctx.atNew)
           /\ \A i \in 1..Len(last.ctx.kwargs) :
                 plain(last.ctx.kwargs[i][1], last.ctx.kwargs[i][2])

\* no global and no concrete key holds a mapping
NoMappingValue(st) ==
    /\ \A g \in DOMAIN st.g : ~IsDict(st.g[g])
    /\ \A c \in ConcreteKeys(st) : ~IsDict(Merged(st)[c])

\* C19: every child key of every global property holds the stored value of
\* its global after construction, and every reset, set of a non-mapping
\* value and scope entry or exit, made in a registry where it is so and
\* that holds no mapping, keeps it so.
C19_ChildConsistency ==
    /\ Consistent(Construct)
    /\ (Consistent(last.pre) /\ NoMappingValue(last.pre) /\ PlainOperation) =>
            Consistent(St)

\* the index of the first override of the context of the last operation
\* whose key nothing recognizes, 0 when there is none
FirstUnknownOverride ==
    LET kwargs == last.ctx.kwargs
        unknown == {i \in 1..Len(kwargs) :
                      /\ ~IsDict(kwargs[i][2])
                      /\ kwargs[i][1] \notin GlobalNames \cup ChildKeys \cup {"cycle"}
                      /\ kwargs[i][1] \notin ConcreteKeys(last.pre)}
    IN  IF unknown = {} THEN 0 ELSE CHOOSE i \in unknown : \A j \in unknown : i <= j

\* C20: when an override of a scope entry fails with UnknownKey
\* (ValueError), the registry is left as the overrides before it made it:
\* they stay applied, the later ones are not applied, nothing is restored
\* from the snapshot, and the error leaves the entry, so that the context
\* is not entered and no exit follows.
C20_FailingEntry ==
    (last.op = "enter" /\ FirstUnknownOverride > 0) =>
        LET j == FirstUnknownOverride
            before == SetAll(last.pre, SubSeq(last.ctx.kwargs, 1, j - 1))
        IN  /\ before.err = "" =>
                /\ last.err = "ValueError"
                /\ last.n = j
                /\ rcParams = before.st.p
                /\ _rcSpecial = before.st.s
                /\ _rcGlobals = before.st.g
            /\ \A i \in 1..Len(ctxs) :
                  (ctxs[i].kwargs = last.ctx.kwargs /\ ctxs[i].atNew = last.ctx.atNew) =>
                      ctxs[i].status \in {"failed", "new"}

\* the entry wrote figure.dpi, failed at 'also.fake', never wrote
\* abc.weight and left figure.dpi at the override, not at the snapshot
C20_Witness ==
    /\ last.op = "enter" /\ last.err = "ValueError" /\ FirstUnknownOverride = 2
    /\ last.ctx.kwargs[1] = <<"figure.dpi", Ten>>
    /\ last.ctx.kwargs[3] = <<"abc.weight", Str("normal")>>
    /\ last.ctx.rcparams["figure.dpi"] = Num(90, 1)
    /\ last.pre.p["figure.dpi"] = Num(90, 1)
    /\ rcParams["figure.dpi"] = Ten
    /\ _rcSpecial["abc.weight"] = last.pre.s["abc.weight"]
    /\ _rcSpecial["abc.weight"] # Str("normal")
    /\ stack = <<>>

====
